---- MODULE Spec2Model ----
(***************************************************************************)
(* Model of the Vision pages (VisionFood, VisionFlower, FlowerDetection,   *)
(* Food), of the analyze request of the OCR Bill and Bank pages, of the    *)
(* chat page (Index) and of the Notifications page.                        *)
(*                                                                         *)
(* JavaScript numbers are modelled as exact rationals [n, d] in lowest     *)
(* terms where a property is meant "within floating tolerance", and as     *)
(* IEEE-754 doubles where the rounding decides the property.               *)
(***************************************************************************)
EXTENDS Integers, Naturals, Sequences, FiniteSets, TLC

VARIABLES
  page,       \* which page component is mounted
  view,       \* viewport state of each canvas of the page: {scale, dx, dy}
  file,       \* useState file
  imgNatural, \* useState imgNatural / imgWH (NoImage = null)
  processing, \* useState processing
  resp,       \* useState resp (Bill: fields/raw)
  error,      \* useState error (FlowerDetection only)
  elapsed,    \* useState elapsedMs / elapsed
  ocrId,      \* useState ocrId (OCRBill, OCRBank; 0 = null)
  settled,    \* ids of the analyze calls that have run their finally block
  inflight,   \* analyze calls suspended at an await
  nextReq,    \* number of analyze calls issued so far
  dragRef,    \* useRef drag state
  pinchRef,   \* useRef pinch state
  mouse,      \* canvas under the mouse pointer and pointer position
  touches,    \* active touch points (e.touches)
  parentWidth, \* cvs.parentElement.clientWidth
  canvas,     \* width/height of each canvas element, set by the draw functions
  painted,    \* what the last draw call of each canvas put on it
  hist,       \* the last operations, with their arguments and prior viewport
  nSteps,     \* number of viewport updates so far (bounded)
  credits,    \* Index: useState credits (remaining; -1 = null)
  chats,      \* Index: useState chats (the chats' ids)
  activeId,   \* Index: useState activeId ("null" = null)
  messages,   \* Index: useState messages
  sending,    \* Index: useState sending
  showTyping, \* Index: useState showTyping
  loadSeq,    \* Index: useRef loadSeq
  loads,      \* Index: listMessages requests not yet resolved or rejected
  calls,      \* Index: async handler calls suspended at an await
  loaded,     \* Index: the initial load effect has set chats and activeId
  nOps,       \* Index: number of handler calls started so far (bounded)
  filter,     \* Notifications: useState filter
  items,      \* Notifications: useState items, as the batches of rows fetched
  loading,    \* Notifications: useState loading
  loadingMore, \* Notifications: useState loadingMore
  fetchError, \* Notifications: useState error ("null" = null)
  offset,     \* Notifications: useState offset
  hasMore,    \* Notifications: useState hasMore
  fetches,    \* Notifications: fetchNotifications calls suspended at await fetch
  nFetch      \* Notifications: number of fetchNotifications calls so far (bounded)

\* the state of the chat page
chatVars == <<credits, chats, activeId, messages, sending, showTyping, loadSeq, loads, calls,
              loaded, nOps>>

\* the state of the Notifications page
notifVars == <<filter, items, loading, loadingMore, fetchError, offset, hasMore, fetches, nFetch>>

\* the state of the Vision and OCR pages
visionVars == <<view, file, imgNatural, processing, resp, error, elapsed, ocrId, settled,
                inflight, nextReq, dragRef, pinchRef, mouse, touches, parentWidth, canvas,
                painted, nSteps>>

vars == <<page, view, file, imgNatural, processing, resp, error, elapsed, ocrId, settled, inflight,
          nextReq, dragRef, pinchRef, mouse, touches, parentWidth, canvas, painted, hist,
          nSteps, chatVars, notifVars>>

----------------------------------------------------------------------------
(* Bounds *)
MaxSteps == 2
MaxRequests == 3

----------------------------------------------------------------------------
(* JavaScript number arithmetic, as exact rationals *)

Abs(i) == IF i < 0 THEN -i ELSE i

RECURSIVE GCD(_, _)
GCD(a, b) == IF b = 0 THEN a ELSE GCD(b, a % b)

R(n, d) ==
  LET s == IF d < 0 THEN -1 ELSE 1
      g == GCD(Abs(n), Abs(d))
  IN  [n |-> (s * n) \div g, d |-> (s * d) \div g]

RInt(i) == [n |-> i, d |-> 1]

RMul(a, b) ==
  LET g1 == GCD(Abs(a.n), b.d)
      g2 == GCD(Abs(b.n), a.d)
  IN  R((a.n \div g1) * (b.n \div g2), (a.d \div g2) * (b.d \div g1))

RDiv(a, b) == RMul(a, IF b.n < 0 THEN [n |-> -b.d, d |-> -b.n] ELSE [n |-> b.d, d |-> b.n])

RAdd(a, b) ==
  LET g == GCD(a.d, b.d)
  IN  R(a.n * (b.d \div g) + b.n * (a.d \div g), (a.d \div g) * b.d)

RNeg(a) == [n |-> -a.n, d |-> a.d]

RSub(a, b) == RAdd(a, RNeg(b))

RLt(a, b) == a.n * b.d < b.n * a.d

RLe(a, b) == a.n * b.d <= b.n * a.d

\* Math.max / Math.min
RMax(a, b) == IF RLt(a, b) THEN b ELSE a

RMin(a, b) == IF RLt(b, a) THEN b ELSE a

\* Math.round: nearest integer, halves rounded up
Round(a) == (2 * a.n + a.d) \div (2 * a.d)

----------------------------------------------------------------------------
(* Pages and canvases *)

Pages == {"VisionFood", "VisionFlower", "FlowerDetection", "Food", "OCRBill"}

\* the OCR pages: Bill.tsx and Bank.tsx
OcrPages == {"OCRBill", "OCRBank"}

VisionPages == {"VisionFood", "VisionFlower", "FlowerDetection", "Food"}

TwoCanvasPages == {"VisionFlower", "FlowerDetection"}

\* pages whose canvases have touch handlers
TouchPages == {"VisionFood", "VisionFlower", "Food"}

Canvases(p) ==
  IF p \in TwoCanvasPages THEN {"in", "out"}
  ELSE IF p \in VisionPages THEN {"main"} ELSE {}

Other(c) == IF c = "in" THEN "out" ELSE "in"

\* useState({ scale: 1, dx: 0, dy: 0 })
InitialView == [scale |-> RInt(1), dx |-> RInt(0), dy |-> RInt(0)]

MinScale == R(2, 10)

MaxScale == RInt(5)

----------------------------------------------------------------------------
(* Viewport functions *)

clampScale_lower_only(s) == RMax(MinScale, s)

clampScale(s) == RMax(MinScale, RMin(MaxScale, s))

\* the state updater of zoomAt
zoomAt_unclamped_ratio(v, x, y, factor) ==
  LET newScale == clampScale(RMul(v.scale, factor))
      ratio == factor
  IN  [scale |-> newScale,
       dx |-> RSub(x, RMul(RSub(x, v.dx), ratio)),
       dy |-> RSub(y, RMul(RSub(y, v.dy), ratio))]

zoomAt_additive_step(v, x, y, factor) ==
  LET newScale == clampScale(RAdd(v.scale, RSub(factor, RInt(1))))
      ratio == RDiv(newScale, v.scale)
  IN  [scale |-> newScale,
       dx |-> RSub(x, RMul(RSub(x, v.dx), ratio)),
       dy |-> RSub(y, RMul(RSub(y, v.dy), ratio))]

zoomAt(v, x, y, factor) ==
  LET newScale == clampScale(RMul(v.scale, factor))
      ratio == RDiv(newScale, v.scale)
  IN  [scale |-> newScale,
       dx |-> RSub(x, RMul(RSub(x, v.dx), ratio)),
       dy |-> RSub(y, RMul(RSub(y, v.dy), ratio))]

\* the state updater of the mouse / one-finger pan
panBy(v, ddx, ddy) ==
  [scale |-> v.scale, dx |-> RAdd(v.dx, RInt(ddx)), dy |-> RAdd(v.dy, RInt(ddy))]

----------------------------------------------------------------------------
(* Values *)

Files == {"f1", "f2"}

NoFile == "none"

\* img.width / img.height of the decoded file
ImageOf(f) == IF f = "f1" THEN [w |-> 100, h |-> 100] ELSE [w |-> 400, h |-> 200]

NoImage == [w |-> 0, h |-> 0]

NoResp == [kind |-> "null", req |-> 0, image |-> NoImage, boxes |-> <<>>]

\* a canvas element before any draw: 300 x 150
DefaultCanvas == [w |-> 300, h |-> 150]

\* a canvas nothing has been drawn on
Blank == [drawn |-> FALSE, img |-> <<>>, boxes |-> <<>>]

NoDrag == [which |-> "none", dragging |-> FALSE, lastX |-> 0, lastY |-> 0]

NoPinch == [which |-> "none", lastDist |-> 0]

NoMouse == [over |-> "none", x |-> 0, y |-> 0]

\* A recorded operation: target is the canvas the event was dispatched on,
\* which the canvas whose view setter was called ("none": no setter called),
\* x, y, factor the arguments of zoomAt (x, y: the deltas of a pan), before
\* the viewports when the operation started; req and outcome name the
\* analyze call an operation belongs to and how its request ended, deltaY
\* the sign of e.deltaY of a wheel event.
NoOp == [op |-> "none", target |-> "none", which |-> "none", x |-> RInt(0),
         y |-> RInt(0), factor |-> RInt(1), before |-> <<>>, req |-> 0,
         outcome |-> "none", deltaY |-> 0]

Op(name, t, c, x, y, f) ==
  [op |-> name, target |-> t, which |-> c, x |-> x, y |-> y, factor |-> f,
   before |-> view, req |-> 0, outcome |-> "none", deltaY |-> 0]

\* hist keeps the last two operations, newest first
Record(o) == <<o, hist[1]>>

\* the initial values of the chat page's useState / useRef
\* initial values of the useState declarations of Notifications
InitNotifVars ==
  /\ filter = "all"
  /\ items = <<>>
  /\ loading = FALSE
  /\ loadingMore = FALSE
  /\ fetchError = "null"
  /\ offset = 0
  /\ hasMore = TRUE
  /\ fetches = {}
  /\ nFetch = 0

InitChatVars ==
  /\ credits = -1
  /\ chats = <<>>
  /\ activeId = "null"
  /\ messages = <<>>
  /\ sending = FALSE
  /\ showTyping = FALSE
  /\ loadSeq = 0
  /\ loads = {}
  /\ calls = {}
  /\ loaded = "no"
  /\ nOps = 0

----------------------------------------------------------------------------
(* File selection *)

onFile_keeps_output_view(f) ==
  /\ file' = f
  /\ resp' = NoResp
  /\ error' = "null"
  /\ elapsed' = IF page \in OcrPages THEN elapsed ELSE "null"
  /\ ocrId' = 0
  /\ view' = [c \in DOMAIN view |-> IF c = "out" THEN view[c] ELSE InitialView]
  /\ imgNatural' = IF f = NoFile THEN NoImage ELSE imgNatural
  /\ hist' = Record(Op("onFile", "none", "none", RInt(0), RInt(0), RInt(1)))

\* onFile(f): f is a file or null
onFile(f) ==
  /\ file' = f
  /\ resp' = NoResp
  /\ error' = "null"
  /\ elapsed' = IF page \in OcrPages THEN elapsed ELSE "null"
  /\ ocrId' = 0
  /\ view' = [c \in DOMAIN view |-> InitialView]
  /\ imgNatural' = IF f = NoFile THEN NoImage ELSE imgNatural
  /\ hist' = Record(Op("onFile", "none", "none", RInt(0), RInt(0), RInt(1)))

OnFile ==
  /\ \E f \in Files \cup {NoFile} : onFile(f)
  /\ UNCHANGED <<notifVars, chatVars, page, processing, settled, inflight, nextReq, dragRef, pinchRef,
                 mouse, touches, parentWidth, canvas, painted, nSteps>>

----------------------------------------------------------------------------
(* The viewport functions applied to drawn inputs *)

\* viewports the pages reach: the initial one, and the two clamped extremes
\* (17 wheel-ups, resp. 16 wheel-downs, at the canvas origin)
StartViews ==
  {InitialView,
   [scale |-> MaxScale, dx |-> RInt(0), dy |-> RInt(0)],
   [scale |-> MinScale, dx |-> RInt(0), dy |-> RInt(0)]}

\* factors the handlers pass (wheel / HUD: 1.1, 0.9; pinch: 1.03, 0.97)
HandlerFactors == {R(11, 10), R(9, 10), R(103, 100), R(97, 100)}

\* their inverses
InverseFactors == {R(10, 11), R(10, 9)}

Anchors == {[x |-> 0, y |-> 0], [x |-> 20, y |-> 10]}

PanDeltas == {[x |-> 15, y |-> -5], [x |-> -15, y |-> 5]}

InitRest ==
  /\ file = NoFile
  /\ imgNatural = NoImage
  /\ parentWidth = 200
  /\ processing = FALSE
  /\ resp = NoResp
  /\ error = "null"
  /\ elapsed = "null"
  /\ ocrId = 0
  /\ settled = {}
  /\ inflight = {}
  /\ nextReq = 0
  /\ dragRef = NoDrag
  /\ pinchRef = NoPinch
  /\ mouse = NoMouse
  /\ touches = <<>>
  /\ canvas = [c \in Canvases(page) |-> DefaultCanvas]
  /\ painted = [c \in Canvases(page) |-> Blank]
  /\ hist = <<NoOp, NoOp>>
  /\ nSteps = 0
  /\ InitChatVars
  /\ InitNotifVars

InitZoom ==
  /\ page \in VisionPages
  /\ \E v \in StartViews : view = [c \in Canvases(page) |-> v]
  /\ InitRest

ApplyZoom ==
  /\ nSteps < MaxSteps
  /\ \E c \in DOMAIN view, p \in Anchors, f \in HandlerFactors \cup InverseFactors :
        /\ view' = [view EXCEPT ![c] = zoomAt(view[c], RInt(p.x), RInt(p.y), f)]
        /\ hist' = Record(Op("zoomAt", c, c, RInt(p.x), RInt(p.y), f))
  /\ nSteps' = nSteps + 1
  /\ UNCHANGED <<notifVars, chatVars, page, file, imgNatural, processing, resp, error, elapsed, ocrId, settled, inflight, nextReq,
                 dragRef, pinchRef, mouse, touches, parentWidth, canvas, painted>>

ApplyPan ==
  /\ nSteps < MaxSteps
  /\ \E c \in DOMAIN view, d \in PanDeltas :
        /\ view' = [view EXCEPT ![c] = panBy(view[c], d.x, d.y)]
        /\ hist' = Record(Op("pan", c, c, RInt(d.x), RInt(d.y), RInt(1)))
  /\ nSteps' = nSteps + 1
  /\ UNCHANGED <<notifVars, chatVars, page, file, imgNatural, processing, resp, error, elapsed, ocrId, settled, inflight, nextReq,
                 dragRef, pinchRef, mouse, touches, parentWidth, canvas, painted>>

NextZoom == ApplyZoom \/ ApplyPan \/ OnFile

SpecZoom == InitZoom /\ [][NextZoom]_vars

----------------------------------------------------------------------------
(* JavaScript numbers as IEEE-754 doubles, where rounding matters *)

\* A number is kept exactly as i + hi / 2^27 + lo / 2^54 (i an integer, hi and
\* lo in 0 .. 2^27 - 1): every double of magnitude in [2^-2, 2^25) and every
\* small-integer sum or product of such doubles has this form.
Limb == 2^27

XNorm(i, hi, lo) ==
  LET h == hi + (lo \div Limb)
  IN  [i |-> i + (h \div Limb), hi |-> h % Limb, lo |-> lo % Limb]

XInt(n) == [i |-> n, hi |-> 0, lo |-> 0]

XNeg(a) == XNorm(-a.i, -a.hi, -a.lo)

XAdd(a, b) == XNorm(a.i + b.i, a.hi + b.hi, a.lo + b.lo)

\* a * n for a small factor n (the limb products stay below 2^31)
XScale(a, n) == XNorm(a.i * n, a.hi * n, a.lo * n)

RECURSIVE XMulInt(_, _)
XMulInt(a, n) ==
  IF n < 8 THEN XScale(a, n)
  ELSE XAdd(XScale(XMulInt(a, n \div 8), 8), XScale(a, n % 8))

XIsNeg(a) == a.i < 0

XAbs(a) == IF XIsNeg(a) THEN XNeg(a) ELSE a

RECURSIVE Log2(_)
Log2(n) == IF n < 2 THEN 0 ELSE 1 + Log2(n \div 2)

\* round to nearest, ties to even, to the 53 significant bits of a double:
\* a magnitude in [2^k, 2^(k+1)) keeps 52 - k of the 54 fractional bits
\* (sticky: the exact value lies above a by less than 2^-54)
DRoundSticky(a, sticky) ==
  LET m    == XAbs(a)
      d    == IF m.i >= 1 THEN Log2(m.i) + 2
              ELSE IF m.hi >= Limb \div 2 THEN 1 ELSE 0
      u    == 2^d
      rem  == m.lo % u
      odd  == IF u = Limb THEN m.hi % 2 = 1 ELSE (m.lo \div u) % 2 = 1
      up   == d > 0 /\ (2 * rem > u \/ (2 * rem = u /\ (sticky \/ odd)))
      r    == XNorm(m.i, m.hi, (m.lo - rem) + (IF up THEN u ELSE 0))
  IN  IF XIsNeg(a) THEN XNeg(r) ELSE r

DRound(a) == DRoundSticky(a, FALSE)

\* a + b and a * n as JavaScript computes them
DAdd(a, b) == DRound(XAdd(a, b))

DMulInt(a, n) == DRound(XMulInt(a, n))

\* the 54 fractional bits of r / b (0 <= r < b), nine at a time, and whether
\* a remainder is left
RECURSIVE FracBits(_, _, _)
FracBits(r, b, n) ==
  IF n = 0 THEN [q |-> <<>>, sticky |-> r # 0]
  ELSE LET rest == FracBits((r * 512) % b, b, n - 1)
       IN  [q |-> <<(r * 512) \div b>> \o rest.q, sticky |-> rest.sticky]

\* a / b of two positive integers with a / b >= 1/2, as JavaScript computes it
DDivInt(a, b) ==
  LET f == FracBits(a % b, b, 6)
  IN  DRoundSticky([i  |-> a \div b,
                    hi |-> (f.q[1] * 512 + f.q[2]) * 512 + f.q[3],
                    lo |-> (f.q[4] * 512 + f.q[5]) * 512 + f.q[6]], f.sticky)

\* Math.round of a double >= 0: the nearest integer, a half rounds up
DMathRound(a) == IF a.hi >= Limb \div 2 THEN a.i + 1 ELSE a.i

\* Math.min(1, a) for a double a > 0
DMinOne(a) == IF a.i >= 1 THEN XInt(1) ELSE a

\* the literals 1.1, 0.9, 1.03, 0.97 as doubles
DoubleFactors ==
  {[i |-> 1, hi |-> 13421772, lo |-> 107374184],
   [i |-> 0, hi |-> 120795955, lo |-> 26843546],
   [i |-> 1, hi |-> 4026531, lo |-> 112742892],
   [i |-> 0, hi |-> 130191196, lo |-> 21474836]}

\* zoomAt(x, y, factor) applied to the initial viewport {scale: 1, dx: 0,
\* dy: 0}: scale * factor = factor lies within the clamp, ratio = factor / 1,
\* x - v.dx = x, so dx' = x - x * factor with both operations rounded
zoomAtInitial(x, y, factor) ==
  [scale |-> factor,
   dx |-> DAdd(XInt(x), XNeg(DMulInt(factor, x))),
   dy |-> DAdd(XInt(y), XNeg(DMulInt(factor, y)))]

panByDouble_sets_offset(v, ddx, ddy) ==
  [scale |-> v.scale, dx |-> XInt(ddx), dy |-> XInt(ddy)]

\* the pan updater ({ ...v, dx: v.dx + dx, dy: v.dy + dy }) in doubles
panByDouble(v, ddx, ddy) ==
  [scale |-> v.scale, dx |-> DAdd(v.dx, XInt(ddx)), dy |-> DAdd(v.dy, XInt(ddy))]

\* anchors of the zoom that precedes the pans
DoubleAnchors == {[x |-> 0, y |-> 0], [x |-> 3, y |-> 7], [x |-> 10, y |-> 3]}

DoubleViews ==
  {[scale |-> XInt(1), dx |-> XInt(0), dy |-> XInt(0)]} \cup
  {zoomAtInitial(p.x, p.y, f) : p \in DoubleAnchors, f \in DoubleFactors}

DoublePanDeltas == {[x |-> 15, y |-> -4], [x |-> -15, y |-> 4], [x |-> 4, y |-> 15]}

InitPan ==
  /\ page \in VisionPages
  /\ \E v \in DoubleViews : view = [c \in Canvases(page) |-> v]
  /\ InitRest

PanDouble ==
  /\ nSteps < MaxSteps
  /\ \E c \in DOMAIN view, d \in DoublePanDeltas :
        /\ view' = [view EXCEPT ![c] = panByDouble(view[c], d.x, d.y)]
        /\ hist' = Record(Op("pan", c, c, RInt(d.x), RInt(d.y), RInt(1)))
  /\ nSteps' = nSteps + 1
  /\ UNCHANGED <<notifVars, chatVars, page, file, imgNatural, processing, resp, error, elapsed, ocrId, settled, inflight, nextReq,
                 dragRef, pinchRef, mouse, touches, parentWidth, canvas, painted>>

NextPan == PanDouble

SpecPan == InitPan /\ [][NextPan]_vars

----------------------------------------------------------------------------
(* Pointer and touch handlers of the canvases *)

\* getBoundingClientRect(): the input (or only) canvas is at the left of the
\* page, the output canvas in the column to its right
RectLeft(c) == IF c = "out" THEN 100 ELSE 0

\* rect.width / rect.height of a canvas
RectWidth == 40

RectHeight == 20

\* pointer and finger positions, relative to the canvas they are on
LocalPoints == {[x |-> 0, y |-> 0], [x |-> 20, y |-> 10]}

clientX(c, p) == RectLeft(c) + p.x

\* the setter a handler picks: (which === "in" ? setViewIn : setViewOut);
\* the single-canvas pages have one view
SetterOf(which) == IF page \in TwoCanvasPages THEN which ELSE "main"

\* a handler without a setView call
Unchanged(name, t) ==
  /\ view' = view
  /\ hist' = <<Op(name, t, "none", RInt(0), RInt(0), RInt(1)), NoOp>>
  /\ nSteps' = nSteps

\* zoomAt(which, x, y, factor) called by the handler of an event on canvas t
ZoomBy(name, t, which, x, y, factor) ==
  /\ nSteps < MaxSteps
  /\ view' = [view EXCEPT ![which] = zoomAt(view[which], x, y, factor)]
  /\ hist' = <<Op(name, t, which, x, y, factor), NoOp>>
  /\ nSteps' = nSteps + 1

\* the pan updater called by the handler of an event on canvas t
PanBy(name, t, which, ddx, ddy) ==
  /\ nSteps < MaxSteps
  /\ view' = [view EXCEPT ![which] = panBy(view[which], ddx, ddy)]
  /\ hist' = <<Op(name, t, which, RInt(ddx), RInt(ddy), RInt(1)), NoOp>>
  /\ nSteps' = nSteps + 1

MouseMove_pans_always(c, p) ==
  /\ mouse.over \in {c, "none"}
  /\ <<mouse.over, mouse.x, mouse.y>> # <<c, clientX(c, p), p.y>>
  /\ mouse' = [over |-> c, x |-> clientX(c, p), y |-> p.y]
  /\ PanBy("mousemove", c, SetterOf(c), clientX(c, p) - mouse.x, p.y - mouse.y)
  /\ dragRef' = [dragRef EXCEPT !.lastX = clientX(c, p), !.lastY = p.y]
  /\ UNCHANGED <<notifVars, chatVars, page, file, imgNatural, processing, resp, error, elapsed, ocrId, settled, inflight, nextReq,
                 pinchRef, touches, parentWidth, canvas, painted>>

\* the pointer moves to point p of canvas c: onMouseMove / handleMouseMove / onMove
MouseMove(c, p) ==
  /\ mouse.over \in {c, "none"}
  /\ <<mouse.over, mouse.x, mouse.y>> # <<c, clientX(c, p), p.y>>
  /\ mouse' = [over |-> c, x |-> clientX(c, p), y |-> p.y]
  /\ IF dragRef.dragging
        THEN /\ PanBy("mousemove", c, dragRef.which,
                      clientX(c, p) - dragRef.lastX, p.y - dragRef.lastY)
             /\ dragRef' = [dragRef EXCEPT !.lastX = clientX(c, p), !.lastY = p.y]
        ELSE /\ Unchanged("mousemove", c)
             /\ dragRef' = dragRef
  /\ UNCHANGED <<notifVars, chatVars, page, file, imgNatural, processing, resp, error, elapsed, ocrId, settled, inflight, nextReq,
                 pinchRef, touches, parentWidth, canvas, painted>>

\* onMouseDown / handleMouseDown(which) / onDown(which)
MouseDown(c) ==
  /\ mouse.over = c
  /\ dragRef' = [which |-> SetterOf(c), dragging |-> TRUE,
                 lastX |-> mouse.x, lastY |-> mouse.y]
  /\ Unchanged("mousedown", c)
  /\ UNCHANGED <<notifVars, chatVars, page, file, imgNatural, processing, resp, error, elapsed, ocrId, settled, inflight, nextReq,
                 pinchRef, mouse, touches, parentWidth, canvas, painted>>

\* onMouseUp / handleMouseUp / onUp, bound to onMouseUp
MouseUp(c) ==
  /\ mouse.over = c
  /\ dragRef' = [dragRef EXCEPT !.dragging = FALSE]
  /\ Unchanged("mouseup", c)
  /\ UNCHANGED <<notifVars, chatVars, page, file, imgNatural, processing, resp, error, elapsed, ocrId, settled, inflight, nextReq,
                 pinchRef, mouse, touches, parentWidth, canvas, painted>>

\* the same handler, bound to onMouseLeave: the pointer leaves canvas c
MouseLeave(c) ==
  /\ mouse.over = c
  /\ mouse' = NoMouse
  /\ dragRef' = [dragRef EXCEPT !.dragging = FALSE]
  /\ Unchanged("mouseleave", c)
  /\ UNCHANGED <<notifVars, chatVars, page, file, imgNatural, processing, resp, error, elapsed, ocrId, settled, inflight, nextReq,
                 pinchRef, touches, parentWidth, canvas, painted>>

Wheel_inverted(c, up) ==
  /\ mouse.over = c
  /\ nSteps < MaxSteps
  /\ LET x == RInt(mouse.x - RectLeft(c))
         y == RInt(mouse.y)
         factor == IF up THEN R(9, 10) ELSE R(11, 10)
     IN  /\ view' = [view EXCEPT ![SetterOf(c)] = zoomAt(@, x, y, factor)]
         /\ hist' = <<[Op("wheel", c, SetterOf(c), x, y, factor)
                         EXCEPT !.deltaY = IF up THEN -1 ELSE 1], NoOp>>
  /\ nSteps' = nSteps + 1
  /\ UNCHANGED <<notifVars, chatVars, page, file, imgNatural, processing, resp, error, elapsed, ocrId, settled, inflight, nextReq,
                 dragRef, pinchRef, mouse, touches, parentWidth, canvas, painted>>

\* handleWheel / makeWheel(which) / onWheel; up: e.deltaY < 0
Wheel(c, up) ==
  /\ mouse.over = c
  /\ nSteps < MaxSteps
  /\ LET x == RInt(mouse.x - RectLeft(c))
         y == RInt(mouse.y)
         factor == IF up THEN R(11, 10) ELSE R(9, 10)
     IN  /\ view' = [view EXCEPT ![SetterOf(c)] = zoomAt(@, x, y, factor)]
         /\ hist' = <<[Op("wheel", c, SetterOf(c), x, y, factor)
                         EXCEPT !.deltaY = IF up THEN -1 ELSE 1], NoOp>>
  /\ nSteps' = nSteps + 1
  /\ UNCHANGED <<notifVars, chatVars, page, file, imgNatural, processing, resp, error, elapsed, ocrId, settled, inflight, nextReq,
                 dragRef, pinchRef, mouse, touches, parentWidth, canvas, painted>>

\* ZoomHUD buttons: onPlus / onMinus / centerZoom
HudZoom(c, plus) ==
  /\ ZoomBy("hud", c, SetterOf(c), R(RectWidth, 2), R(RectHeight, 2),
            IF plus THEN R(11, 10) ELSE R(9, 10))
  /\ UNCHANGED <<notifVars, chatVars, page, file, imgNatural, processing, resp, error, elapsed, ocrId, settled, inflight, nextReq,
                 dragRef, pinchRef, mouse, touches, parentWidth, canvas, painted>>

\* dist / getDist; Math.hypot is only ever compared with another Math.hypot,
\* so its square stands for it
dist(t) ==
  (t[1].x - t[2].x) * (t[1].x - t[2].x) + (t[1].y - t[2].y) * (t[1].y - t[2].y)

\* onTouchStart / handleTouchStart(which), with e.touches = t
handleTouchStart(c, t) ==
  /\ IF Len(t) = 1
        THEN /\ dragRef' = [which |-> SetterOf(c), dragging |-> TRUE,
                            lastX |-> t[1].x, lastY |-> t[1].y]
             /\ pinchRef' = pinchRef
        ELSE IF Len(t) = 2
        THEN /\ pinchRef' = [which |-> SetterOf(c), lastDist |-> dist(t)]
             /\ dragRef' = dragRef
        ELSE UNCHANGED <<dragRef, pinchRef>>
  /\ Unchanged("touchstart", c)

\* a finger lands on point p of canvas c
TouchStart(c, p) ==
  /\ page \in TouchPages
  /\ Len(touches) < 2
  /\ touches' = Append(touches, [target |-> c, x |-> clientX(c, p), y |-> p.y])
  /\ handleTouchStart(c, touches')
  /\ UNCHANGED <<notifVars, chatVars, page, file, imgNatural, processing, resp, error, elapsed, ocrId, settled, inflight, nextReq,
                 mouse, parentWidth, canvas, painted>>

\* the canvas whose rect the pinch branch reads: pinchRef.current.which in
\* VisionFlower, e.currentTarget on the single-canvas pages
PinchCanvas(c) == IF page \in TwoCanvasPages THEN pinchRef.which ELSE c

\* onTouchMove / handleTouchMove, dispatched on canvas c with e.touches = t
handleTouchMove(c, t) ==
  IF Len(t) = 1 /\ dragRef.dragging
    THEN /\ PanBy("touchmove", c, dragRef.which,
                  t[1].x - dragRef.lastX, t[1].y - dragRef.lastY)
         /\ dragRef' = [dragRef EXCEPT !.lastX = t[1].x, !.lastY = t[1].y]
         /\ pinchRef' = pinchRef
    ELSE IF Len(t) = 2 /\ pinchRef # NoPinch
    THEN /\ ZoomBy("pinch", c, SetterOf(PinchCanvas(c)),
                   RSub(R(t[1].x + t[2].x, 2), RInt(RectLeft(PinchCanvas(c)))),
                   R(t[1].y + t[2].y, 2),
                   IF dist(t) > pinchRef.lastDist THEN R(103, 100) ELSE R(97, 100))
         /\ pinchRef' = [pinchRef EXCEPT !.lastDist = dist(t)]
         /\ dragRef' = dragRef
    ELSE /\ Unchanged("touchmove", c)
         /\ UNCHANGED <<dragRef, pinchRef>>

\* finger i moves to point p (relative to the canvas it started on)
TouchMove(i, p) ==
  /\ i \in DOMAIN touches
  /\ LET c == touches[i].target
     IN  /\ <<touches[i].x, touches[i].y>> # <<clientX(c, p), p.y>>
         /\ touches' = [touches EXCEPT ![i] = [target |-> c, x |-> clientX(c, p), y |-> p.y]]
         /\ handleTouchMove(c, touches')
  /\ UNCHANGED <<notifVars, chatVars, page, file, imgNatural, processing, resp, error, elapsed, ocrId, settled, inflight, nextReq,
                 mouse, parentWidth, canvas, painted>>

\* onTouchEnd / handleTouchEnd: finger i is lifted
TouchEnd(i) ==
  /\ i \in DOMAIN touches
  /\ touches' = SubSeq(touches, 1, i - 1) \o SubSeq(touches, i + 1, Len(touches))
  /\ dragRef' = [dragRef EXCEPT !.dragging = FALSE]
  /\ pinchRef' = NoPinch
  /\ Unchanged("touchend", touches[i].target)
  /\ UNCHANGED <<notifVars, chatVars, page, file, imgNatural, processing, resp, error, elapsed, ocrId, settled, inflight, nextReq,
                 mouse, parentWidth, canvas, painted>>

\* img.onload of the selected file
ImageLoaded ==
  /\ file # NoFile
  /\ imgNatural # ImageOf(file)
  /\ imgNatural' = ImageOf(file)
  /\ UNCHANGED <<notifVars, chatVars, page, view, file, processing, resp, error, elapsed, ocrId, settled, inflight, nextReq, dragRef,
                 pinchRef, mouse, touches, parentWidth, canvas, painted, hist, nSteps>>

Init ==
  /\ page \in VisionPages
  /\ view = [c \in Canvases(page) |-> InitialView]
  /\ InitRest

Next ==
  \/ OnFile
  \/ \E c \in DOMAIN view, p \in LocalPoints : MouseMove(c, p)
  \/ \E c \in DOMAIN view : MouseDown(c)
  \/ \E c \in DOMAIN view : MouseUp(c)
  \/ \E c \in DOMAIN view : MouseLeave(c)
  \/ \E c \in DOMAIN view, up \in BOOLEAN : Wheel(c, up)
  \/ \E c \in DOMAIN view, plus \in BOOLEAN : HudZoom(c, plus)

Spec == Init /\ [][Next]_vars

InitTouch ==
  /\ page \in TouchPages
  /\ view = [c \in Canvases(page) |-> InitialView]
  /\ InitRest

NextTouch ==
  \/ \E c \in DOMAIN view, p \in LocalPoints : TouchStart(c, p)
  \/ \E i \in 1..2, p \in LocalPoints : TouchMove(i, p)
  \/ \E i \in 1..2 : TouchEnd(i)
  \/ \E c \in DOMAIN view, plus \in BOOLEAN : HudZoom(c, plus)

SpecTouch == InitTouch /\ [][NextTouch]_vars

----------------------------------------------------------------------------
(* The analyze request *)

\* how the request of an analyze call ends: a usable response, a JSON body
\* without results, a non-2xx status, or a rejected fetch / unparsable body
Outcomes == {"ok", "malformed", "http", "network"}

\* the Analyze button: disabled={!file || processing}
AnalyzeEnabled_ignores_processing == file # NoFile

AnalyzeEnabled == file # NoFile /\ ~processing

\* does the try block throw on this outcome (FlowerDetection checks r.ok)
Throws(p, outcome) ==
  outcome = "network" \/ (p = "FlowerDetection" /\ outcome = "http")

DefaultImage == [w |-> 640, h |-> 480]

\* the placeholder result; r.img is the imgNatural the analyze call closed over
Placeholder(r) ==
  [kind |-> "placeholder", req |-> r.id,
   image |-> IF r.img = NoImage THEN DefaultImage ELSE r.img, boxes |-> <<>>]

\* the value the try block passes to setResp (OCRBill: setFields / setRaw)
tryResult(p, r, outcome) ==
  IF outcome = "ok"
    THEN [kind |-> "data", req |-> r.id, image |-> ImageOf(r.file),
          boxes |-> << <<0, 0, 10, 10>> >>]
  ELSE IF p \in {"VisionFood", "Food"}
    THEN Placeholder(r)
  ELSE [kind |-> "malformed", req |-> r.id, image |-> NoImage, boxes |-> <<>>]

catchBlock_log_only(p, r) == [resp |-> resp, error |-> error]

\* the catch block: what resp and error are afterwards
catchBlock(p, r) ==
  IF p \in {"VisionFood", "VisionFlower", "Food"}
    THEN [resp |-> Placeholder(r), error |-> error]
  ELSE IF p = "FlowerDetection"
    THEN [resp |-> resp, error |-> "message"]
  ELSE [resp |-> resp, error |-> error]

finallyProcessing_end_of_try(p, outcome) == Throws(p, outcome) /\ processing

\* the finally block: setProcessing(false)
finallyProcessing(p, outcome) == FALSE

\* analyze(), up to its first await
Analyze ==
  /\ AnalyzeEnabled
  /\ file # NoFile
  /\ nextReq < MaxRequests
  /\ processing' = TRUE
  /\ resp' = IF page \in OcrPages THEN resp ELSE NoResp
  /\ error' = IF page = "FlowerDetection" THEN "null" ELSE error
  /\ elapsed' = IF page \in OcrPages THEN "pending"
                ELSE IF page = "FlowerDetection" THEN elapsed ELSE "null"
  /\ nextReq' = nextReq + 1
  /\ inflight' = inflight \cup
        {[id |-> nextReq + 1, file |-> file, img |-> imgNatural, stage |-> "fetch"]}
  /\ hist' = <<[NoOp EXCEPT !.op = "analyze", !.req = nextReq + 1], NoOp>>
  /\ UNCHANGED <<notifVars, chatVars, page, view, file, imgNatural, ocrId, settled, dragRef, pinchRef,
                 mouse, touches, parentWidth, canvas, painted, nSteps>>

\* the rest of the call of request r once fetch / r.json() have ended
Respond(r, outcome) ==
  /\ r \in inflight
  /\ r.stage = "fetch"
  /\ IF Throws(page, outcome)
       THEN /\ resp' = catchBlock(page, r).resp
            /\ error' = catchBlock(page, r).error
       ELSE /\ resp' = tryResult(page, r, outcome)
            /\ error' = error
  /\ IF page \in OcrPages /\ ~Throws(page, outcome)
       THEN \* await service.createOcr(...)
            /\ inflight' = (inflight \ {r}) \cup {[r EXCEPT !.stage = "create"]}
            /\ UNCHANGED <<processing, elapsed, settled>>
            /\ hist' = <<[NoOp EXCEPT !.op = "response", !.req = r.id, !.target = r.file,
                                      !.outcome = outcome], NoOp>>
       ELSE /\ inflight' = inflight \ {r}
            /\ elapsed' = "ms"
            /\ processing' = finallyProcessing(page, outcome)
            /\ settled' = settled \cup {r.id}
            /\ hist' = <<[NoOp EXCEPT !.op = "settle", !.req = r.id,
                                      !.outcome = outcome], NoOp>>
  /\ UNCHANGED <<notifVars, chatVars, page, view, file, imgNatural, ocrId, nextReq, dragRef, pinchRef,
                 mouse, touches, parentWidth, canvas, painted, nSteps>>

\* OCRBill: the rest of the call once service.createOcr has ended
Created(r, ok) ==
  /\ r \in inflight
  /\ r.stage = "create"
  /\ ocrId' = IF ok THEN r.id ELSE ocrId
  /\ inflight' = inflight \ {r}
  /\ elapsed' = "ms"
  /\ processing' = finallyProcessing(page, IF ok THEN "ok" ELSE "network")
  /\ settled' = settled \cup {r.id}
  /\ hist' = <<[NoOp EXCEPT !.op = "settle", !.req = r.id, !.target = r.file,
                            !.outcome = IF ok THEN "ok" ELSE "network"], NoOp>>
  /\ UNCHANGED <<notifVars, chatVars, page, view, file, imgNatural, resp, error, nextReq, dragRef,
                 pinchRef, mouse, touches, parentWidth, canvas, painted, nSteps>>

InitAnalyze ==
  /\ page \in Pages
  /\ view = [c \in Canvases(page) |-> InitialView]
  /\ InitRest

NextAnalyze ==
  \/ OnFile
  \/ ImageLoaded
  \/ Analyze
  \/ \E r \in inflight, outcome \in Outcomes : Respond(r, outcome)
  \/ \E r \in inflight, ok \in BOOLEAN : Created(r, ok)

SpecAnalyze == InitAnalyze /\ [][NextAnalyze]_vars

\* the Approve File and Save Data buttons: disabled={!ocrId || processing}
ApproveEnabled == ocrId # 0 /\ ~processing

InitOcr ==
  /\ page \in OcrPages
  /\ view = [c \in Canvases(page) |-> InitialView]
  /\ InitRest

NextOcr ==
  \/ OnFile
  \/ Analyze
  \/ \E r \in inflight, outcome \in Outcomes : Respond(r, outcome)
  \/ \E r \in inflight, ok \in BOOLEAN : Created(r, ok)

SpecOcr == InitOcr /\ [][NextOcr]_vars

----------------------------------------------------------------------------
(* The renderer *)

\* the canvas size the draw function sets.  VisionFood.draw and
\* VisionFlower.drawInput: scaleFit = maxW / w; fitCanvasToParent of
\* FlowerDetection and Food: scale = Math.min(1, maxW / w)
fitCanvas_no_aspect(p, img, maxW) == [w |-> maxW, h |-> img.h]

fitCanvas(p, img, maxW) ==
  LET ratio == DDivInt(maxW, img.w)
      scaleFit == IF p \in {"FlowerDetection", "Food"} THEN DMinOne(ratio) ELSE ratio
  IN  [w |-> DMathRound(DMulInt(scaleFit, img.w)),
       h |-> DMathRound(DMulInt(scaleFit, img.h))]

\* the width and height passed to ctx.drawImage(img, 0, 0, w, h)
drawSize(p, cvs, v) ==
  IF p \in {"FlowerDetection", "Food"}
    THEN [w |-> RDiv(RInt(cvs.w), v.scale), h |-> RDiv(RInt(cvs.h), v.scale)]
    ELSE [w |-> RInt(cvs.w), h |-> RInt(cvs.h)]

\* where a rectangle given to the context lands on the canvas after
\* ctx.translate(v.dx, v.dy); ctx.scale(v.scale, v.scale)
OnCanvas(v, r) ==
  [x |-> RAdd(v.dx, RMul(v.scale, r.x)), y |-> RAdd(v.dy, RMul(v.scale, r.y)),
   w |-> RMul(v.scale, r.w), h |-> RMul(v.scale, r.h)]

\* the arguments of ctx.strokeRect for box b of response rs
boxRect(p, cvs, v, rs, img, b) ==
  LET iw == IF rs.image.w # 0 THEN rs.image.w ELSE img.w
      ih == IF rs.image.h # 0 THEN rs.image.h ELSE img.h
      sx == RDiv(drawSize(p, cvs, v).w, RInt(iw))
      sy == RDiv(drawSize(p, cvs, v).h, RInt(ih))
  IN  [x |-> RMul(RInt(b[1]), sx), y |-> RMul(RInt(b[2]), sy),
       w |-> RMul(RInt(b[3] - b[1]), sx), h |-> RMul(RInt(b[4] - b[2]), sy)]

\* what a draw call leaves on canvas c of size cvs: the image rectangle as it
\* lands on the canvas, the strokeRect arguments of the boxes
Paint(c, cvs, bs) ==
  [drawn |-> TRUE,
   img |-> OnCanvas(view[c], [x |-> RInt(0), y |-> RInt(0),
                               w |-> drawSize(page, cvs, view[c]).w,
                               h |-> drawSize(page, cvs, view[c]).h]),
   boxes |-> [i \in DOMAIN bs |-> boxRect(page, cvs, view[c], resp, imgNatural, bs[i])]]

\* draw / drawInput
DrawInput ==
  /\ imgNatural # NoImage
  /\ \E c \in DOMAIN view \ {"out"} :
       LET cvs == fitCanvas(page, imgNatural, parentWidth)
       IN  /\ canvas' = [canvas EXCEPT ![c] = cvs]
           /\ painted' = [painted EXCEPT ![c] = Paint(c, cvs, <<>>)]
  /\ UNCHANGED <<notifVars, chatVars, page, view, file, imgNatural, processing, resp, error, elapsed, ocrId,
                 settled, inflight, nextReq, dragRef, pinchRef, mouse, touches,
                 parentWidth, hist, nSteps>>

\* drawOutput: VisionFlower takes the size of the input canvas, which the
\* drawInput effect (declared first) has set by then; FlowerDetection fits the
\* output canvas to its own parent
DrawOutput ==
  /\ imgNatural # NoImage
  /\ "out" \in DOMAIN view
  /\ page = "VisionFlower" => painted["in"].drawn
  /\ LET cvs == IF page = "VisionFlower" THEN canvas["in"]
                ELSE fitCanvas(page, imgNatural, parentWidth)
     IN  /\ canvas' = [canvas EXCEPT !["out"] = cvs]
         /\ painted' = [painted EXCEPT !["out"] = Paint("out", cvs, resp.boxes)]
  /\ UNCHANGED <<notifVars, chatVars, page, view, file, imgNatural, processing, resp, error, elapsed, ocrId,
                 settled, inflight, nextReq, dragRef, pinchRef, mouse, touches,
                 parentWidth, hist, nSteps>>

\* inputs of the renderer
DrawViews ==
  {[scale |-> sc, dx |-> RInt(d), dy |-> RInt(d)] : sc \in {RInt(1), RInt(2), R(1, 2)},
                                                    d \in {0, 30}}

DrawImages ==
  {[w |-> 100, h |-> 100], [w |-> 400, h |-> 200], [w |-> 400, h |-> 400],
   [w |-> 200, h |-> 300]}

DrawParentWidths == {200, 300, 301}

DrawBoxes == {<<>>, << <<0, 0, 10, 10>> >>, << <<0, 0, 10, 10>>, <<10, 20, 50, 40>> >>}

DrawResponses(p) ==
  IF p \in TwoCanvasPages
    THEN {[kind |-> "data", req |-> 1, image |-> im, boxes |-> bs] :
             im \in {[w |-> 100, h |-> 100], NoImage}, bs \in DrawBoxes}
    ELSE {NoResp}

InitDraw ==
  /\ page \in VisionPages
  /\ \E v \in DrawViews : view = [c \in Canvases(page) |-> v]
  /\ file = "f1"
  /\ imgNatural \in DrawImages
  /\ parentWidth \in DrawParentWidths
  /\ resp \in DrawResponses(page)
  /\ processing = FALSE
  /\ error = "null"
  /\ elapsed = "null"
  /\ ocrId = 0
  /\ settled = {}
  /\ inflight = {}
  /\ nextReq = 0
  /\ dragRef = NoDrag
  /\ pinchRef = NoPinch
  /\ mouse = NoMouse
  /\ touches = <<>>
  /\ canvas = [c \in Canvases(page) |-> DefaultCanvas]
  /\ painted = [c \in Canvases(page) |-> Blank]
  /\ hist = <<NoOp, NoOp>>
  /\ nSteps = 0
  /\ InitChatVars
  /\ InitNotifVars

NextDraw == DrawInput \/ DrawOutput

SpecDraw == InitDraw /\ [][NextDraw]_vars

----------------------------------------------------------------------------
(* The chat page (Index) *)

MaxOps == 2

\* what listChats returns: no chat yet, or two chats
ServerChatLists == {<<>>, <<"c1", "c2">>}

\* the id createChat gives the chat created by handler call n (0: the
\* initial load)
ChatIdOf(n) == <<"n0", "n1", "n2", "n3", "n4", "n5">>[n + 1]

\* credits.remaining as getCredits and the chat router report it
CreditValues == {0, 1}

\* (credits?.remaining ?? 0): null counts as 0
Remaining(c) == IF c < 0 THEN 0 ELSE c

\* activeIdRef.current: the effect [activeId] copies activeId into the ref
\* when the commit's effects are flushed.  React flushes them before it
\* renders any later update, and every state update enqueued in between is
\* applied before the updates of the effects, so the actions below take a
\* state change together with the effects of its commit.
activeIdRef == activeId

NoCall == [n |-> 0, k |-> "none", pc |-> "none", id |-> "null", credits |-> 0, chats |-> <<>>]

Msg(kind, chat, from, req, n) ==
  [kind |-> kind, chat |-> chat, from |-> from, req |-> req, n |-> n]

ChatOp(name, chat, n, outcome) ==
  <<[NoOp EXCEPT !.op = name, !.target = chat, !.req = n, !.outcome = outcome], NoOp>>

Aborted(ls) == {[l EXCEPT !.aborted = TRUE] : l \in ls}

\* the message-load effect of a commit that changed activeId to id:
\* abort, new controller, seq = ++loadSeq, setMessages([]), listMessages(id)
LoadEffect(id, seq) ==
  /\ loadSeq' = seq + 1
  /\ loads' = Aborted(loads) \cup {[chat |-> id, seq |-> seq + 1, aborted |-> FALSE]}

\* switchChat(id), with the effects of its commit
switchChat(id) ==
  /\ activeId' = id
  /\ messages' = <<>>
  /\ showTyping' = FALSE
  /\ IF id # activeId
       THEN LoadEffect(id, loadSeq + 1)
       ELSE /\ loadSeq' = loadSeq + 1
            /\ loads' = Aborted(loads)

\* pushNotice(text) applied to the messages m; req: is it the notice of a
\* chat-router response
pushNotice(m, from, req, n) ==
  IF activeIdRef = "null" THEN m
  ELSE Append(m, Msg("notice", activeIdRef, from, req, n))

WithoutTmp(m, n) == SelectSeq(m, LAMBDA x : ~(x.kind = "tmp" /\ x.n = n))

Pending(k, pc) == {c \in calls : c.k = k /\ c.pc = pc}

\* the initial load effect [user]
InitialLoadEffect ==
  /\ loaded = "no"
  /\ loaded' = "loading"
  /\ calls' = calls \cup {[NoCall EXCEPT !.k = "init", !.pc = "load"]}
  /\ hist' = ChatOp("initEffect", "none", 0, "none")
  /\ UNCHANGED <<notifVars, page, visionVars, credits, chats, activeId, messages, sending, showTyping,
                 loadSeq, loads, nOps>>

\* Promise.all([getCredits(), listChats()]) resolved
InitialLoadDone(c, cr, list) ==
  /\ c \in Pending("init", "load")
  /\ credits' = cr
  /\ chats' = list
  /\ IF list = <<>>
       THEN /\ calls' = (calls \ {c}) \cup {[c EXCEPT !.pc = "create"]}
            /\ UNCHANGED <<activeId, messages, loadSeq, loads, loaded>>
       ELSE /\ calls' = calls \ {c}
            /\ activeId' = list[1]
            /\ IF list[1] # activeId
                 THEN /\ messages' = <<>>
                      /\ LoadEffect(list[1], loadSeq)
                 ELSE UNCHANGED <<messages, loadSeq, loads>>
            /\ loaded' = "yes"
  /\ hist' = ChatOp("initLoaded", "none", c.n, "ok")
  /\ UNCHANGED <<notifVars, page, visionVars, sending, showTyping, nOps>>

\* createChat("New Chat") of the initial load resolved
InitialCreateDone(c) ==
  /\ c \in Pending("init", "create")
  /\ calls' = calls \ {c}
  /\ chats' = <<ChatIdOf(c.n)>>
  /\ activeId' = ChatIdOf(c.n)
  /\ messages' = <<>>
  /\ LoadEffect(ChatIdOf(c.n), loadSeq)
  /\ loaded' = "yes"
  /\ hist' = ChatOp("initLoaded", ChatIdOf(c.n), c.n, "ok")
  /\ UNCHANGED <<notifVars, page, visionVars, credits, sending, showTyping, nOps>>

\* a request of the initial load rejected: toast "Load error"
InitialLoadFailed(c) ==
  /\ c \in Pending("init", "load") \cup Pending("init", "create")
  /\ calls' = calls \ {c}
  /\ loaded' = IF loaded = "loading" THEN "failed" ELSE loaded
  /\ hist' = ChatOp("initLoaded", "none", c.n, "error")
  /\ UNCHANGED <<notifVars, page, visionVars, credits, chats, activeId, messages, sending, showTyping,
                 loadSeq, loads, nOps>>

\* useAuthSession returns another user object (the session was refreshed):
\* the initial load effect [user] runs again
UserChanged ==
  /\ loaded \in {"yes", "failed"}
  /\ nOps < MaxOps
  /\ nOps' = nOps + 1
  /\ calls' = calls \cup {[NoCall EXCEPT !.n = nOps + 1, !.k = "init", !.pc = "load"]}
  /\ hist' = ChatOp("initEffect", "none", nOps + 1, "none")
  /\ UNCHANGED <<notifVars, page, visionVars, credits, chats, activeId, messages, sending, showTyping,
                 loadSeq, loads, loaded>>

\* a handler can be called: the sidebar shows the loaded chats
CanStart == loaded = "yes" /\ nOps < MaxOps

\* AppSidebar onSelect(id)
OnSelect(id) ==
  /\ CanStart
  /\ id \in {chats[i] : i \in DOMAIN chats}
  /\ switchChat(id)
  /\ nOps' = nOps + 1
  /\ hist' = ChatOp("select", id, nOps + 1, "none")
  /\ UNCHANGED <<notifVars, page, visionVars, credits, chats, sending, calls, loaded>>

\* onNewChat, up to await createChat
OnNewChat ==
  /\ CanStart
  /\ switchChat("pending-new")
  /\ nOps' = nOps + 1
  /\ calls' = calls \cup {[NoCall EXCEPT !.n = nOps + 1, !.k = "new", !.pc = "create"]}
  /\ hist' = ChatOp("newChat", "pending-new", nOps + 1, "none")
  /\ UNCHANGED <<notifVars, page, visionVars, credits, chats, sending, loaded>>

\* createChat of onNewChat (called from the sidebar or from onDelete) settled
CreateDone(c, ok) ==
  /\ c \in Pending("new", "create") \cup Pending("delete", "create")
  /\ calls' = calls \ {c}
  /\ IF ok
       THEN /\ chats' = <<ChatIdOf(c.n)>> \o chats
            /\ switchChat(ChatIdOf(c.n))
       ELSE UNCHANGED <<chats, activeId, messages, showTyping, loadSeq, loads>>
  /\ hist' = ChatOp("created", ChatIdOf(c.n), c.n, IF ok THEN "ok" ELSE "error")
  /\ UNCHANGED <<notifVars, page, visionVars, credits, sending, loaded, nOps>>

\* onRename, up to await renameChat
OnRename(id) ==
  /\ CanStart
  /\ id \in {chats[i] : i \in DOMAIN chats}
  /\ nOps' = nOps + 1
  /\ calls' = calls \cup {[NoCall EXCEPT !.n = nOps + 1, !.k = "rename", !.pc = "rename", !.id = id]}
  /\ hist' = ChatOp("rename", id, nOps + 1, "none")
  /\ UNCHANGED <<notifVars, page, visionVars, credits, chats, activeId, messages, sending, showTyping,
                 loadSeq, loads, loaded>>

\* renameChat settled: the title changes, the ids stay
RenameDone(c, ok) ==
  /\ c \in Pending("rename", "rename")
  /\ calls' = calls \ {c}
  /\ hist' = ChatOp("renamed", c.id, c.n, IF ok THEN "ok" ELSE "error")
  /\ UNCHANGED <<notifVars, page, visionVars, credits, chats, activeId, messages, sending, showTyping,
                 loadSeq, loads, loaded, nOps>>

\* onDelete, up to await deleteChat; the call closes over chats
OnDelete(id) ==
  /\ CanStart
  /\ id \in {chats[i] : i \in DOMAIN chats}
  /\ nOps' = nOps + 1
  /\ calls' = calls \cup {[NoCall EXCEPT !.n = nOps + 1, !.k = "delete", !.pc = "delete",
                                         !.id = id, !.chats = chats]}
  /\ hist' = ChatOp("delete", id, nOps + 1, "none")
  /\ UNCHANGED <<notifVars, page, visionVars, credits, chats, activeId, messages, sending, showTyping,
                 loadSeq, loads, loaded>>

Without(cs, id) == SelectSeq(cs, LAMBDA x : x # id)

\* deleteChat settled
DeleteDone(c, ok) ==
  /\ c \in Pending("delete", "delete")
  /\ IF ~ok
       THEN /\ calls' = calls \ {c}
            /\ UNCHANGED <<chats, activeId, messages, showTyping, loadSeq, loads>>
       ELSE /\ chats' = Without(chats, c.id)
            /\ IF activeIdRef # c.id
                 THEN /\ calls' = calls \ {c}
                      /\ UNCHANGED <<activeId, messages, showTyping, loadSeq, loads>>
                 ELSE IF Without(c.chats, c.id) # <<>>
                 THEN /\ calls' = calls \ {c}
                      /\ switchChat(Without(c.chats, c.id)[1])
                 ELSE \* await onNewChat()
                      /\ calls' = (calls \ {c}) \cup {[c EXCEPT !.pc = "create"]}
                      /\ switchChat("pending-new")
  /\ hist' = ChatOp("deleted", c.id, c.n, IF ok THEN "ok" ELSE "error")
  /\ UNCHANGED <<notifVars, page, visionVars, credits, sending, loaded, nOps>>

SendEnabled_ignores_sending == activeIdRef # "null"

\* send / regenerate may start: ChatInput is disabled while sending, and
\* both handlers return on (!id || sending)
SendEnabled == activeIdRef # "null" /\ ~sending

\* setSending(true), the temporary user message (send only), setShowTyping(true)
RequestStart(k, id, n) ==
  /\ sending' = TRUE
  /\ showTyping' = TRUE
  /\ messages' = IF k = "send" THEN Append(messages, Msg("tmp", id, id, FALSE, n)) ELSE messages

\* send(text) (k = "send") and regenerate(lastUserText) (k = "regenerate"),
\* up to the first await; the call closes over credits
Send(k) ==
  /\ CanStart
  /\ SendEnabled
  /\ k = "regenerate" => messages # <<>>
  /\ nOps' = nOps + 1
  /\ IF Remaining(credits) <= 0
       THEN /\ calls' = calls \cup {[NoCall EXCEPT !.n = nOps + 1, !.k = k, !.pc = "guard",
                                                   !.id = activeIdRef, !.credits = credits]}
            /\ UNCHANGED <<sending, showTyping, messages>>
       ELSE /\ calls' = calls \cup {[NoCall EXCEPT !.n = nOps + 1, !.k = k, !.pc = "request",
                                                   !.id = activeIdRef, !.credits = credits]}
            /\ RequestStart(k, activeIdRef, nOps + 1)
  /\ hist' = ChatOp(k, activeIdRef, nOps + 1, IF Remaining(credits) <= 0 THEN "guard" ELSE "request")
  /\ UNCHANGED <<notifVars, page, visionVars, credits, chats, activeId, loadSeq, loads, loaded>>

\* refreshCredits() of the credits guard settled with cr (0 when getCredits
\* failed); the second test reads the credits the call closed over
GuardRefreshDone(c, cr) ==
  /\ c \in Pending("send", "guard") \cup Pending("regenerate", "guard")
  /\ credits' = cr
  /\ IF Remaining(c.credits) <= 0
       THEN /\ messages' = pushNotice(messages, c.id, FALSE, c.n)
            /\ calls' = calls \ {c}
            /\ UNCHANGED <<sending, showTyping>>
       ELSE /\ calls' = (calls \ {c}) \cup {[c EXCEPT !.pc = "request"]}
            /\ RequestStart(c.k, c.id, c.n)
  /\ hist' = ChatOp("guardRefreshed", c.id, c.n,
                    IF Remaining(c.credits) <= 0 THEN "blocked" ELSE "request")
  /\ UNCHANGED <<notifVars, page, visionVars, chats, activeId, loadSeq, loads, loaded, nOps>>

\* the rest of the try block after the credits are set: the assistant
\* message is appended unless the user switched chats
Deliver(c, m) ==
  IF activeIdRef # c.id
    THEN /\ messages' = m
         /\ UNCHANGED showTyping
    ELSE /\ messages' = Append(m, Msg("assistant", c.id, c.id, TRUE, c.n))
         /\ showTyping' = FALSE

\* service.sendMessage / service.regenerate settled
Response(c, outcome, cr) ==
  /\ c \in Pending("send", "request") \cup Pending("regenerate", "request")
  /\ CASE outcome = "insufficient" ->
            /\ showTyping' = FALSE
            /\ messages' = WithoutTmp(messages, c.n)
            /\ calls' = (calls \ {c}) \cup {[c EXCEPT !.pc = "insufficient"]}
            /\ UNCHANGED <<credits, sending>>
       [] outcome = "credits" ->
            /\ credits' = cr
            /\ Deliver(c, messages)
            /\ calls' = calls \ {c}
            /\ sending' = FALSE
       [] outcome = "nocredits" ->
            /\ calls' = (calls \ {c}) \cup {[c EXCEPT !.pc = "refresh"]}
            /\ UNCHANGED <<credits, sending, showTyping, messages>>
       [] outcome = "error" ->
            /\ showTyping' = FALSE
            /\ messages' = WithoutTmp(messages, c.n)
            /\ calls' = calls \ {c}
            /\ sending' = FALSE
            /\ UNCHANGED credits
  /\ hist' = ChatOp("response", c.id, c.n, outcome)
  /\ UNCHANGED <<notifVars, page, visionVars, chats, activeId, loadSeq, loads, loaded, nOps>>

\* refreshCredits() after a response settled with cr
RefreshDone(c, cr) ==
  /\ c \in calls
  /\ c.k \in {"send", "regenerate"}
  /\ c.pc \in {"insufficient", "refresh"}
  /\ credits' = cr
  /\ IF c.pc = "insufficient"
       THEN /\ messages' = pushNotice(messages, c.id, TRUE, c.n)
            /\ UNCHANGED showTyping
       ELSE Deliver(c, messages)
  /\ sending' = FALSE
  /\ calls' = calls \ {c}
  /\ hist' = ChatOp("refreshed", c.id, c.n, c.pc)
  /\ UNCHANGED <<notifVars, page, visionVars, chats, activeId, loadSeq, loads, loaded, nOps>>

\* the window focus listener: refreshCredits()
OnFocus ==
  /\ CanStart
  /\ nOps' = nOps + 1
  /\ calls' = calls \cup {[NoCall EXCEPT !.n = nOps + 1, !.k = "focus", !.pc = "refresh"]}
  /\ hist' = ChatOp("focus", "none", nOps + 1, "none")
  /\ UNCHANGED <<notifVars, page, visionVars, credits, chats, activeId, messages, sending, showTyping,
                 loadSeq, loads, loaded>>

FocusRefreshDone(c, cr) ==
  /\ c \in Pending("focus", "refresh")
  /\ credits' = cr
  /\ calls' = calls \ {c}
  /\ hist' = ChatOp("focusRefreshed", "none", c.n, "none")
  /\ UNCHANGED <<notifVars, page, visionVars, chats, activeId, messages, sending, showTyping,
                 loadSeq, loads, loaded, nOps>>

\* the rows listMessages(l.chat) returns
Rows(id) == <<Msg("row", id, id, FALSE, 0)>>

LoadResponse_no_seq_check(l, ok) ==
  /\ l \in loads
  /\ loads' = loads \ {l}
  /\ IF ok
       THEN messages' = SelectSeq(Rows(l.chat), LAMBDA m : m.chat = l.chat)
       ELSE UNCHANGED messages
  /\ hist' = ChatOp("load", l.chat, l.seq,
                    IF ~ok THEN "rejected" ELSE IF l.seq # loadSeq THEN "stale" ELSE "written")
  /\ UNCHANGED <<notifVars, page, visionVars, credits, chats, activeId, sending, showTyping, loadSeq,
                 calls, loaded, nOps>>

\* service.listMessages of the message-load effect settled; a request whose
\* controller was aborted may still resolve, or reject with an AbortError.
\* The closure's activeId is the chat the request was made for.
LoadResponse(l, ok) ==
  /\ l \in loads
  /\ loads' = loads \ {l}
  /\ IF ok /\ l.seq = loadSeq
       THEN messages' = SelectSeq(Rows(l.chat), LAMBDA m : m.chat = l.chat)
       ELSE UNCHANGED messages
  /\ hist' = ChatOp("load", l.chat, l.seq,
                    IF ~ok THEN "rejected" ELSE IF l.seq # loadSeq THEN "stale" ELSE "written")
  /\ UNCHANGED <<notifVars, page, visionVars, credits, chats, activeId, sending, showTyping, loadSeq,
                 calls, loaded, nOps>>

ChatIds == {"c1", "c2"} \cup {ChatIdOf(n) : n \in 0..MaxOps}

\* the chat page has no canvas
InitChat ==
  /\ page = "Index"
  /\ view = [c \in Canvases("Index") |-> InitialView]
  /\ InitRest

NextChat ==
  \/ InitialLoadEffect
  \/ \E c \in calls, cr \in CreditValues, list \in ServerChatLists : InitialLoadDone(c, cr, list)
  \/ \E c \in calls : InitialCreateDone(c)
  \/ \E c \in calls : InitialLoadFailed(c)
  \/ UserChanged
  \/ \E id \in ChatIds : OnSelect(id)
  \/ OnNewChat
  \/ \E c \in calls, ok \in BOOLEAN : CreateDone(c, ok)
  \/ \E id \in ChatIds : OnRename(id)
  \/ \E c \in calls, ok \in BOOLEAN : RenameDone(c, ok)
  \/ \E id \in ChatIds : OnDelete(id)
  \/ \E c \in calls, ok \in BOOLEAN : DeleteDone(c, ok)
  \/ \E k \in {"send", "regenerate"} : Send(k)
  \/ \E c \in calls, cr \in CreditValues : GuardRefreshDone(c, cr)
  \/ \E c \in calls, o \in {"insufficient", "credits", "nocredits", "error"}, cr \in CreditValues :
       Response(c, o, cr)
  \/ \E c \in calls, cr \in CreditValues : RefreshDone(c, cr)
  \/ OnFocus
  \/ \E c \in calls, cr \in CreditValues : FocusRefreshDone(c, cr)
  \/ \E l \in loads, ok \in BOOLEAN : LoadResponse(l, ok)

SpecChat == InitChat /\ [][NextChat]_vars

----------------------------------------------------------------------------
(* The Notifications page *)

MaxFetches == 3

PAGE_SIZE == 20

Filters == {"all", "unread", "read"}

\* the rows one response carries, kept as one batch: the filter and offset
\* of the request and the number of rows
Batch(f, o, k) == [filter |-> f, offset |-> o, len |-> k]

\* how many rows the backend returns: none, a short page, a full page
RowCounts == {0, 5, PAGE_SIZE}

NotifOp(name, f, n, outcome) ==
  <<[NoOp EXCEPT !.op = name, !.target = f, !.req = n, !.outcome = outcome], NoOp>>

\* fetchNotifications({ reset }) up to await fetch; f is the filter of the
\* render the call belongs to
fetchNotifications(f, reset) ==
  /\ nFetch < MaxFetches
  /\ nFetch' = nFetch + 1
  /\ IF reset
       THEN /\ offset' = 0
            /\ hasMore' = TRUE
            /\ items' = <<>>
       ELSE UNCHANGED <<offset, hasMore, items>>
  /\ fetchError' = "null"
  /\ IF reset \/ offset = 0
       THEN /\ loading' = TRUE
            /\ UNCHANGED loadingMore
       ELSE /\ loadingMore' = TRUE
            /\ UNCHANGED loading
  /\ fetches' = fetches \cup
       {[id |-> nFetch + 1, filter |-> f, reset |-> reset, offset |-> IF reset THEN 0 ELSE offset]}
  /\ hist' = NotifOp("fetch", f, nFetch + 1, IF reset THEN "reset" ELSE "more")

\* the effect [filter], on mount
MountEffect ==
  /\ nFetch = 0
  /\ fetchNotifications(filter, TRUE)
  /\ UNCHANGED <<filter, page, visionVars, chatVars>>

\* a FilterPill is clicked: setFilter(f), then the effect [filter]
SetFilter(f) ==
  /\ nFetch > 0
  /\ f # filter
  /\ filter' = f
  /\ fetchNotifications(f, TRUE)
  /\ UNCHANGED <<page, visionVars, chatVars>>

\* the Load more button is rendered and enabled
LoadMoreShown ==
  ~loading /\ fetchError = "null" /\ items # <<>> /\ hasMore /\ ~loadingMore

\* loadMore
LoadMore ==
  /\ LoadMoreShown
  /\ fetchNotifications(filter, FALSE)
  /\ UNCHANGED <<filter, page, visionVars, chatVars>>

\* the Retry button
Retry ==
  /\ ~loading
  /\ fetchError # "null"
  /\ fetchNotifications(filter, TRUE)
  /\ UNCHANGED <<filter, page, visionVars, chatVars>>

\* fetch and r.json() of the call r resolved with k rows
FetchDone(r, k) ==
  /\ r \in fetches
  /\ fetches' = fetches \ {r}
  /\ LET rows == IF k > 0 THEN <<Batch(r.filter, r.offset, k)>> ELSE <<>>
     IN  items' = IF r.reset THEN rows ELSE items \o rows
  /\ hasMore' = (k >= PAGE_SIZE)
  /\ offset' = IF r.reset THEN k ELSE offset + k
  /\ loading' = FALSE
  /\ loadingMore' = FALSE
  /\ hist' = NotifOp("fetched", r.filter, r.id, IF r.reset THEN "reset" ELSE "more")
  /\ UNCHANGED <<filter, fetchError, nFetch, page, visionVars, chatVars>>

\* the call r threw: fetch rejected, status not ok, or an invalid payload
FetchFailed(r) ==
  /\ r \in fetches
  /\ fetches' = fetches \ {r}
  /\ fetchError' = "failed"
  /\ loading' = FALSE
  /\ loadingMore' = FALSE
  /\ hist' = NotifOp("fetched", r.filter, r.id, "error")
  /\ UNCHANGED <<filter, items, hasMore, offset, nFetch, page, visionVars, chatVars>>

\* the Notifications page has no canvas
InitNotifications ==
  /\ page = "Notifications"
  /\ view = [c \in Canvases("Notifications") |-> InitialView]
  /\ InitRest

NextNotifications ==
  \/ MountEffect
  \/ \E f \in Filters : SetFilter(f)
  \/ LoadMore
  \/ Retry
  \/ \E r \in fetches, k \in RowCounts : FetchDone(r, k)
  \/ \E r \in fetches : FetchFailed(r)

SpecNotifications == InitNotifications /\ [][NextNotifications]_vars

----------------------------------------------------------------------------
(* Claims about the viewport functions (SpecZoom) *)

LastOp == hist[1]

PrevOp == hist[2]

\* the unclamped product scale * factor of a recorded zoomAt
RawScale(o) == RMul(o.before[o.which].scale, o.factor)

Clamped(o) == RLt(RawScale(o), MinScale) \/ RLt(MaxScale, RawScale(o))

\* C1: after any sequence of zoomAt calls, pans and file selections the scale
\* of every canvas lies within [0.2, 5.0].
C1_ScaleWithinBounds ==
  \A c \in DOMAIN view :
    RLe(MinScale, view[c].scale) /\ RLe(view[c].scale, MaxScale)

\* a zoom whose product scale * factor left the range and was clamped
C1_Witness ==
  /\ LastOp.op = "zoomAt"
  /\ RLt(MaxScale, RawScale(LastOp))
  /\ view[LastOp.which].scale = MaxScale

\* C2: zoomAt(x, y, factor) sets scale' = clamp(scale * factor),
\* dx' = x - (x - dx) * ratio, dy' = y - (y - dy) * ratio with
\* ratio = scale' / scale, and the canvas point (x, y) maps to the same image
\* point before and after: (x - dx) / scale = (x - dx') / scale', also when
\* the new scale is clamped.
C2_ZoomKeepsAnchor ==
  LastOp.op = "zoomAt" =>
    LET v == LastOp.before[LastOp.which]
        w == view[LastOp.which]
        x == LastOp.x
        y == LastOp.y
        ns == RMax(MinScale, RMin(MaxScale, RawScale(LastOp)))
        ratio == RDiv(ns, v.scale)
    IN  /\ w.scale = ns
        /\ w.dx = RSub(x, RMul(RSub(x, v.dx), ratio))
        /\ w.dy = RSub(y, RMul(RSub(y, v.dy), ratio))
        /\ RDiv(RSub(x, v.dx), v.scale) = RDiv(RSub(x, w.dx), w.scale)
        /\ RDiv(RSub(y, v.dy), v.scale) = RDiv(RSub(y, w.dy), w.scale)

\* a clamped zoom at an anchor away from the image origin, which moved dx
C2_Witness ==
  /\ LastOp.op = "zoomAt"
  /\ Clamped(LastOp)
  /\ LastOp.x # LastOp.before[LastOp.which].dx
  /\ view[LastOp.which].scale # LastOp.before[LastOp.which].scale
  /\ view[LastOp.which].dx # LastOp.before[LastOp.which].dx

\* zoomAt(x, y, f) directly followed by zoomAt(x, y, 1/f) on the same canvas
RoundTrip ==
  /\ LastOp.op = "zoomAt"
  /\ PrevOp.op = "zoomAt"
  /\ LastOp.which = PrevOp.which
  /\ LastOp.x = PrevOp.x
  /\ LastOp.y = PrevOp.y
  /\ RMul(LastOp.factor, PrevOp.factor) = RInt(1)

\* C10 as stated: for every viewport, anchor and factor f, zoomAt(x, y, f)
\* followed by zoomAt(x, y, 1/f) restores the original scale.
C10_Original ==
  RoundTrip => view[LastOp.which].scale = PrevOp.before[PrevOp.which].scale

\* C10 amended: when scale * f lies within [0.2, 5.0] (the first zoom is not
\* clamped), zoomAt(x, y, f) followed by zoomAt(x, y, 1/f) restores the
\* original scale.
C10_RoundTripUnclamped ==
  (RoundTrip /\ ~Clamped(PrevOp)) =>
    view[LastOp.which].scale = PrevOp.before[PrevOp.which].scale

\* an unclamped round trip that changed the scale in between
C10_Witness ==
  /\ RoundTrip
  /\ ~Clamped(PrevOp)
  /\ LastOp.before[LastOp.which].scale # PrevOp.before[PrevOp.which].scale
  /\ view[LastOp.which].scale = PrevOp.before[PrevOp.which].scale

----------------------------------------------------------------------------
(* Claims about the pages' handlers (Spec, SpecTouch) *)

\* C3: onFile, with a file or with null, resets the viewport of every
\* canvas of the page to {scale: 1, dx: 0, dy: 0}, whatever it was before.
C3_FileResetsViews ==
  LastOp.op = "onFile" => \A c \in DOMAIN view : view[c] = InitialView

\* a file selected on a two-canvas page whose two viewports had both changed
C3_Witness ==
  /\ LastOp.op = "onFile"
  /\ page \in TwoCanvasPages
  /\ \A c \in DOMAIN view : LastOp.before[c] # InitialView /\ view[c] = InitialView

GestureOps == {"mousemove", "mousedown", "mouseup", "mouseleave", "wheel", "hud",
               "touchstart", "touchmove", "pinch", "touchend"}

\* C9: on pages with an input and an output canvas, a zoom or pan gesture
\* on one canvas leaves the viewport of the other canvas unchanged.
C9_OtherCanvasUnchanged ==
  (page \in TwoCanvasPages /\ LastOp.op \in GestureOps) =>
    view[Other(LastOp.target)] = LastOp.before[Other(LastOp.target)]

----------------------------------------------------------------------------
(* Claims about the analyze request (SpecAnalyze) *)

InFlightIds == {r.id : r \in inflight}

\* C4 as stated: a second Analyze click can be issued while the first
\* request is still in flight.
C4_Original ==
  (inflight # {} /\ file # NoFile) => AnalyzeEnabled

\* C4 amended: in-flight analyze requests are never cancelled (every call
\* issued is in flight or has settled, also across file selections) and the
\* response is applied when it resolves; the Analyze button is disabled while
\* processing, so no second click can be issued while a request is in flight
\* and at most one request is in flight.
C4_OneRequestNeverCancelled ==
  /\ Cardinality(inflight) <= 1
  /\ inflight # {} => processing /\ ~AnalyzeEnabled
  /\ InFlightIds \cup settled = 1..nextReq
  /\ (page \in VisionPages /\ LastOp.op = "settle") =>
        resp.req = LastOp.req \/ error # "null"

\* a second request in flight after the first settled, the file having been
\* changed since it was issued
C4_Witness ==
  /\ 1 \in settled
  /\ \E r \in inflight : r.id = 2 /\ r.file # file /\ file # NoFile
  /\ ~AnalyzeEnabled

\* C5: every analyze request, whether its response is valid, malformed or a
\* network failure, is followed by processing set back to false with no
\* retry issued: processing is true only while a request is in flight.
C5_ProcessingEndsWithRequest ==
  /\ processing => inflight # {}
  /\ LastOp.op = "settle" => ~processing /\ inflight = {}

\* a request that failed on the network has settled
C5_Witness ==
  /\ LastOp.op = "settle"
  /\ LastOp.outcome = "network"
  /\ ~processing

----------------------------------------------------------------------------
(* Claims about the renderer (SpecDraw) *)

\* C8: for every viewport {scale, dx, dy} the image is drawn with its
\* origin at (dx, dy) and an on-canvas size of scale times the fitted canvas
\* size.
C8_ImageDrawnAtScale ==
  \A c \in DOMAIN view :
    painted[c].drawn =>
      painted[c].img = [x |-> view[c].dx, y |-> view[c].dy,
                        w |-> RMul(view[c].scale, RInt(canvas[c].w)),
                        h |-> RMul(view[c].scale, RInt(canvas[c].h))]

\* the strokeRect arguments C7 states for box b
C7_Rect(b) ==
  LET iw == IF resp.image.w # 0 THEN resp.image.w ELSE imgNatural.w
      ih == IF resp.image.h # 0 THEN resp.image.h ELSE imgNatural.h
      sx == R(canvas["out"].w, iw)
      sy == R(canvas["out"].h, ih)
  IN  [x |-> RMul(RInt(b[1]), sx), y |-> RMul(RInt(b[2]), sy),
       w |-> RMul(RInt(b[3] - b[1]), sx), h |-> RMul(RInt(b[4] - b[2]), sy)]

\* the box lands on the canvas where the drawn image shows the box's part of
\* the response image
C7_Registered(b, rect) ==
  LET iw == IF resp.image.w # 0 THEN resp.image.w ELSE imgNatural.w
      ih == IF resp.image.h # 0 THEN resp.image.h ELSE imgNatural.h
      im == painted["out"].img
      on == OnCanvas(view["out"], rect)
  IN  /\ on.x = RAdd(im.x, RMul(R(b[1], iw), im.w))
      /\ on.y = RAdd(im.y, RMul(R(b[2], ih), im.h))
      /\ on.w = RMul(R(b[3] - b[1], iw), im.w)
      /\ on.h = RMul(R(b[4] - b[2], ih), im.h)

\* C7: a box xyxy is drawn at (x1*sx, y1*sy) with size ((x2-x1)*sx,
\* (y2-y1)*sy), sx and sy being the canvas size divided by the response
\* image size, for every viewport scale and pan; xyxy = [0,0,10,10] on a
\* 100x100 image in a 200x200 canvas gives [0,0,20,20].
C7_BoxDrawnAtCanvasScale ==
  ("out" \in DOMAIN view /\ painted["out"].drawn) =>
    \A i \in DOMAIN resp.boxes :
      /\ painted["out"].boxes[i] = C7_Rect(resp.boxes[i])
      /\ C7_Registered(resp.boxes[i], painted["out"].boxes[i])

----------------------------------------------------------------------------
(* Claims about panning in double arithmetic (SpecPan) *)

\* a pan by (a, b) directly followed by a pan by (-a, -b) on the same canvas
PanRoundTrip ==
  /\ LastOp.op = "pan"
  /\ PrevOp.op = "pan"
  /\ LastOp.which = PrevOp.which
  /\ LastOp.x = RNeg(PrevOp.x)
  /\ LastOp.y = RNeg(PrevOp.y)

\* |a - b| < 2^-40
Near(a, b) ==
  LET m == XAbs(XAdd(a, XNeg(b)))
  IN  m.i = 0 /\ m.hi = 0 /\ m.lo < 2^14

\* was v + n computed without rounding
ExactSum(v, n, sum) == sum = XAdd(v, XInt(n))

\* C11 as stated: panning by (a, b) and then by (-a, -b) restores the
\* original dx, dy exactly and leaves the scale unchanged, from every viewport.
C11_Original ==
  PanRoundTrip =>
    LET v == PrevOp.before[PrevOp.which]
        w == view[LastOp.which]
    IN  w.dx = v.dx /\ w.dy = v.dy /\ w.scale = v.scale

\* C11 amended: panning by (a, b) and then by (-a, -b) leaves the scale
\* unchanged and restores dx, dy within floating tolerance, and exactly
\* whenever the first pan's sums dx + a, dy + b were computed without rounding.
C11_PanRoundTripWithinRounding ==
  PanRoundTrip =>
    LET v == PrevOp.before[PrevOp.which]
        u == LastOp.before[LastOp.which]
        w == view[LastOp.which]
        a == PrevOp.x.n
        b == PrevOp.y.n
    IN  /\ w.scale = v.scale
        /\ Near(w.dx, v.dx) /\ Near(w.dy, v.dy)
        /\ ExactSum(v.dx, a, u.dx) => w.dx = v.dx
        /\ ExactSum(v.dy, b, u.dy) => w.dy = v.dy

\* a round trip from a fractional offset whose first sum was exact
C11_Witness ==
  /\ PanRoundTrip
  /\ LET v == PrevOp.before[PrevOp.which]
         u == LastOp.before[LastOp.which]
     IN  /\ v.dx.lo # 0
         /\ ExactSum(v.dx, PrevOp.x.n, u.dx)
         /\ view[LastOp.which].dx = v.dx

----------------------------------------------------------------------------
(* Claims about the mouse and wheel handlers (Spec) *)

\* C12: mousedown records the start point; each mousemove while a drag is
\* active adds exactly the pointer delta since the previous event to dx, dy
\* of the canvas and leaves its scale unchanged; a mousemove when no drag is
\* active (before mousedown, after mouseup / mouseleave) leaves the viewport
\* unchanged.  A drag is active from a mousedown to the next mouseup or
\* mouseleave.
C12_MouseDrag ==
  [][LET o == hist'[1]
     IN  /\ o.op = "mousedown" =>
              /\ dragRef'.dragging
              /\ dragRef'.lastX = mouse.x /\ dragRef'.lastY = mouse.y
              /\ view' = view
         /\ o.op \in {"mouseup", "mouseleave"} =>
              ~dragRef'.dragging /\ view' = view
         /\ o.op \in {"wheel", "hud", "onFile"} =>
              dragRef'.dragging = dragRef.dragging
         /\ o.op = "mousemove" =>
              /\ dragRef'.dragging = dragRef.dragging
              /\ view' = IF dragRef.dragging
                           THEN [view EXCEPT ![o.target] =
                                   [scale |-> @.scale,
                                    dx |-> RAdd(@.dx, RInt(mouse'.x - mouse.x)),
                                    dy |-> RAdd(@.dy, RInt(mouse'.y - mouse.y))]]
                           ELSE view]_vars

\* a mousemove during a drag has moved the viewport of its canvas
C12_Witness ==
  /\ LastOp.op = "mousemove"
  /\ dragRef.dragging
  /\ view[LastOp.target].dx # LastOp.before[LastOp.target].dx
  /\ view[LastOp.target].scale = LastOp.before[LastOp.target].scale

\* C14: a wheel event zooms by factor 1.1 when scrolling up (deltaY < 0)
\* and by 0.9 when scrolling down, anchored at the cursor position relative
\* to the canvas: the image point under the cursor stays under it.
C14_WheelZoomsAtCursor ==
  LastOp.op = "wheel" =>
    LET c == LastOp.target
        v == LastOp.before[c]
        w == view[c]
        x == RInt(mouse.x - RectLeft(c))
        y == RInt(mouse.y)
        f == IF LastOp.deltaY < 0 THEN R(11, 10) ELSE R(9, 10)
    IN  /\ mouse.over = c
        /\ w.scale = RMax(MinScale, RMin(MaxScale, RMul(v.scale, f)))
        /\ RDiv(RSub(x, v.dx), v.scale) = RDiv(RSub(x, w.dx), w.scale)
        /\ RDiv(RSub(y, v.dy), v.scale) = RDiv(RSub(y, w.dy), w.scale)

\* a scroll down with the cursor away from the canvas origin
C14_Witness ==
  /\ LastOp.op = "wheel"
  /\ LastOp.deltaY > 0
  /\ mouse.x - RectLeft(LastOp.target) # 0
  /\ view[LastOp.target].scale = R(9, 10)
  /\ view[LastOp.target].dx # LastOp.before[LastOp.target].dx

----------------------------------------------------------------------------
(* Claims about the touch handlers (SpecTouch) *)

\* the midpoint between the two touches, relative to canvas c
Midpoint(t, c) ==
  [x |-> RSub(R(t[1].x + t[2].x, 2), RInt(RectLeft(c))), y |-> R(t[1].y + t[2].y, 2)]

\* C13: a two-finger pinch zooms by the ratio of the current distance
\* between the two touches to the distance at the previous sample
\* (factor * lastDist = newDist, stated on the squares), anchored at the
\* midpoint between the two touches.
C13_PinchZoomsByDistanceRatio ==
  [][LET o == hist'[1]
     IN  o.op = "pinch" =>
           /\ RMul(RMul(o.factor, o.factor), RInt(pinchRef.lastDist)) = RInt(dist(touches'))
           /\ o.x = Midpoint(touches', IF page \in TwoCanvasPages THEN o.which ELSE o.target).x
           /\ o.y = Midpoint(touches', IF page \in TwoCanvasPages THEN o.which ELSE o.target).y]_vars

----------------------------------------------------------------------------
(* Claims about the canvas size (SpecDraw) *)

\* C15 as stated: on every draw the canvas width equals the parent width and
\* the canvas height equals round(imageHeight * parentWidth / imageWidth),
\* for images both wider and narrower than the parent.
C15_Original ==
  \A c \in DOMAIN view :
    painted[c].drawn =>
      /\ canvas[c].w = parentWidth
      /\ canvas[c].h = Round(R(imgNatural.h * parentWidth, imgNatural.w))

\* the width C15 amended states for the canvases of page p
C15_Width(p) ==
  IF p \in {"FlowerDetection", "Food"} /\ imgNatural.w < parentWidth
    THEN imgNatural.w ELSE parentWidth

\* C15 amended: on every draw the canvas is resized preserving the image's
\* aspect ratio: on VisionFood and VisionFlower the canvas width equals the
\* parent width; on FlowerDetection and Food it equals min(imageWidth,
\* parentWidth); the canvas height is imageHeight * canvasWidth / imageWidth
\* rounded to a nearest integer (an exact half may round either way).
C15_CanvasKeepsAspect ==
  \A c \in DOMAIN view :
    painted[c].drawn =>
      /\ canvas[c].w = C15_Width(page)
      /\ LET exact == R(imgNatural.h * canvas[c].w, imgNatural.w)
             diff  == RSub(RInt(canvas[c].h), exact)
         IN  RLe(R(-1, 2), diff) /\ RLe(diff, R(1, 2))

\* a narrower image drawn at its natural width on a page that does not enlarge
C15_Witness ==
  /\ page = "Food"
  /\ painted["main"].drawn
  /\ imgNatural.w < parentWidth
  /\ canvas["main"] = imgNatural

----------------------------------------------------------------------------
(* Claims about the chat page (SpecChat) *)

\* C16: a listMessages response for a chat that is no longer the active one
\* is never written to messages, and the rows in messages are always rows of
\* the active chat.
C16_LoadedRowsBelongToActiveChat ==
  /\ \A i \in DOMAIN messages : messages[i].kind = "row" => messages[i].chat = activeId
  /\ hist[1].op = "load" /\ hist[1].outcome = "written" => hist[1].target = activeId

\* a response for a chat the user has left arrived and was dropped
C16_Witness ==
  /\ hist[1].op = "load"
  /\ hist[1].outcome = "stale"
  /\ hist[1].target # activeId
  /\ \E i \in DOMAIN chats : chats[i] = activeId

\* C17: nothing a send or regenerate request produces (the assistant reply,
\* the notice 'Credits not enough.') is appended to the messages of a chat
\* other than the one the request was made for.
C17_ResponseStaysInItsChat ==
  \A i \in DOMAIN messages : messages[i].req => messages[i].from = activeId

\* C18: when send or regenerate finds the known credits <= 0 it refreshes
\* them, and it blocks with the notice exactly when the refreshed credits are
\* still <= 0; with positive refreshed credits the request is made.
C18_GuardUsesRefreshedCredits ==
  hist[1].op = "guardRefreshed" =>
    (hist[1].outcome = "blocked" <=> Remaining(credits) <= 0)

\* the send and regenerate calls that have made their chat-router request
\* and have not completed
Requesting == {c \in calls : c.k \in {"send", "regenerate"} /\ c.pc \in {"request", "insufficient", "refresh"}}

\* C19: at most one chat-router request is in flight, and from the request
\* of a send or regenerate until its completion send and regenerate are
\* no-ops, whatever the interleaving with chat switches.
C19_OneRequestInFlight ==
  /\ Cardinality(Pending("send", "request") \cup Pending("regenerate", "request")) <= 1
  /\ Cardinality(Requesting) <= 1
  /\ Requesting # {} => sending /\ ~SendEnabled

\* a request is in flight and the user has switched to another chat
C19_Witness ==
  \E c \in Pending("send", "request") \cup Pending("regenerate", "request") :
    /\ c.id # activeId
    /\ hist[1].op = "select"
    /\ ~SendEnabled

\* no new-chat, rename or delete call is in flight (a select completes at once)
ChatListIdle == \A c \in calls : c.k \notin {"new", "rename", "delete"}

\* C20: once the initial load has succeeded, whenever no select, new-chat,
\* rename or delete is in flight, activeId is the id of a chat in the chats
\* list (never a deleted chat, never 'pending-new').
C20_ActiveChatIsListed ==
  loaded = "yes" /\ ChatListIdle => \E i \in DOMAIN chats : chats[i] = activeId

\* the messages the send call n has put into the pane
MessagesOf(n, kinds) == {i \in DOMAIN messages : messages[i].n = n /\ messages[i].kind \in kinds}

\* when sendMessage has thrown, the temporary message of that send is gone
\* and the send has added no assistant message and no notice
C21_ErrorRemovesTmp ==
  hist[1].op = "response" /\ hist[1].outcome = "error" =>
    MessagesOf(hist[1].req, {"tmp", "assistant", "notice"}) = {}

\* until sendMessage settles, the temporary message is in the pane whenever
\* the chat of the send is the active one
C21_TmpStaysUntilSettled ==
  \A c \in Pending("send", "request") :
    c.id = activeId => MessagesOf(c.n, {"tmp"}) # {}

\* C21: a thrown sendMessage removes the optimistic user message of that send
\* and adds nothing; until the request settles the optimistic message stays
\* in the pane of its chat, also when a message load for that chat completes
\* in between.
C21_OptimisticMessage == C21_ErrorRemovesTmp /\ C21_TmpStaysUntilSettled

\* C22: whenever no send or regenerate request is in flight, sending is false
\* and the typing indicator is hidden, whichever way the request ended and
\* also when the active chat changed during the request.
C22_IdleMeansNotSending ==
  Requesting = {} => ~sending /\ ~showTyping

----------------------------------------------------------------------------
(* Claims about the Notifications page (SpecNotifications) *)

\* C23: the list holds only rows fetched for the current filter; a response
\* to a request issued under a previous filter is never merged into items,
\* in whatever order the responses arrive.
C23_ItemsOfCurrentFilter ==
  \A i \in DOMAIN items : items[i].filter = filter

----------------------------------------------------------------------------
(* Claims about the OCR pages (SpecOcr) *)

\* C24: on the OCR Bill and Bank pages fields and ocrId are only ever set
\* from the analysis of the file that is selected at that moment (onFile
\* clears both), so Approve and Save, once enabled, target the record of the
\* selected file.
C24_ResultOfSelectedFile ==
  /\ hist[1].op = "response" /\ hist[1].outcome = "ok" => hist[1].target = file
  /\ hist[1].op = "settle" /\ hist[1].outcome = "ok" =>
       (ApproveEnabled => hist[1].target = file)

====
